---- MODULE Spec2Model ----
(***************************************************************************)
(* Rebalance planner and order-execution pipeline of trade_handle.py:      *)
(* rebalance(), place_market_order(), handle_order_confirmation(),         *)
(* execute_trades(), positions(), market_data(), get_tickers(), cash_all() *)
(* and the 'rebalance' branch of main().                                   *)
(*                                                                         *)
(* Money amounts are integers (the float arithmetic of the source is       *)
(* modelled exactly, as rationals where a division occurs).  Dates are day *)
(* numbers; a datetime is a day number plus a time-of-day slot, slot 0     *)
(* being exactly midnight.                                                 *)
(***************************************************************************)
EXTENDS Integers, Sequences, FiniteSets, TLC

VARIABLES
    today,            \* the calendar day
    washsales,        \* the persisted "Wash Sales" table: sequence of records
    runs,             \* number of 'rebalance' commands started so far
    pc,               \* where main() is: "idle", "configured", "quoted", "planned",
                      \* "trading", "done", "exited"
    config,           \* main() locals: how the lookups of lines 1410-1446 ended
    gateway_log,      \* the GET requests sent to the brokerage gateway in this run
    summary_df,       \* rebalance() argument: account summary
    positions_df,     \* rebalance() argument: position snapshot (set of rows)
    market_data_df,   \* rebalance() argument: quotes
    tolerance,        \* rebalance() argument: [num, den]
    current_date,     \* rebalance() local: datetime.now(), [day, tod] (line 1016)
    washsale_loaded,  \* rebalance() local: the table as fetched (line 923)
    rebalance_df,     \* rebalance() local: the merged plan rows (lines 968-993)
    filtered_df,      \* rebalance() local: trade_df as the filter leaves it (lines 998-1009)
    trade_df,         \* rebalance() result: the trade list
    washsale_df,      \* rebalance() result: the updated wash-sale set
    result,           \* how rebalance() ended: "none", "ok", "invalid", "raised"
    row,              \* execute_trades(): index of the row being processed
    order_log,        \* order-submission POSTs of this run, in the order sent
    ord,              \* one call of place_market_order()
    pos,              \* one call of positions()
    screener_db,      \* the screener tables of the database: filter name -> rows
    strategies,       \* what group_and_combine returned to the last get_tickers()
    md,               \* one call of market_data()
    sales              \* history: the sales at a loss whose orders were sent

vars == <<today, washsales, runs, pc, config, gateway_log, summary_df, positions_df, market_data_df,
          tolerance, current_date, washsale_loaded, rebalance_df, filtered_df,
          trade_df, washsale_df, result, row, order_log, ord, pos,
          screener_db, strategies, md, sales>>

\* The persisted table, the calendar, the run counter and the history.
worldVars == <<today, washsales, runs, sales>>

\* The arguments and locals of rebalance().
frameVars == <<summary_df, positions_df, market_data_df, tolerance, current_date,
               washsale_loaded, rebalance_df, filtered_df>>

\* What main() resolved and requested before it calls rebalance().
configVars == <<config, gateway_log>>

\* What rebalance() returned to main.
planVars == <<trade_df, washsale_df, result>>

\* The state of the calls made outside the 'rebalance' command.
callVars == <<pos, screener_db, strategies, md>>

(***************************************************************************)
(* Broker responses.                                                       *)
(***************************************************************************)

\* A key that is not in the response, or a text that is empty.
Absent == ""

\* A confirmation budget one larger than the source's.
max_retries_plus_one == 3 + 1

\* max_retries of handle_order_confirmation (line 420)
max_retries == 3

\* An HTTP response of the gateway: status code, the shape of its body
\* ("list": a non-empty JSON list whose first element holds the keys; "dict":
\* a JSON object holding the keys; "empty": an empty JSON list; "nonjson":
\* a body response.json() cannot decode) and the values of the keys
\* 'error', 'order_id' and 'id' (Absent when the key is missing).
Response(status, shape, error, order_id, id) ==
    [status |-> status, shape |-> shape, error |-> error,
     order_id |-> order_id, id |-> id]

HttpOk == "200"
HttpError == "500"

\* Error texts a broker sends; the second contains the substring 'id'.
ErrorTexts == {"Rejected", "Invalid order"}
TextsWithId == {"Invalid order"}

OrderIds == {"7001", "7002"}
PromptIds == {"p1"}

BrokerResponses ==
    {Response(HttpOk, "list", Absent, o, Absent) : o \in OrderIds}
    \cup {Response(HttpOk, "dict", Absent, o, Absent) : o \in {"7001"}}
    \cup {Response(HttpOk, "list", Absent, Absent, p) : p \in PromptIds}
    \cup {Response(HttpOk, "dict", e, Absent, Absent) : e \in ErrorTexts}
    \cup {Response(HttpOk, "list", "Rejected", Absent, p) : p \in PromptIds}
    \cup {Response(HttpOk, "empty", Absent, Absent, Absent),
          Response(HttpOk, "nonjson", Absent, Absent, Absent),
          Response(HttpError, "dict", "Rejected", Absent, Absent)}

\* The responses the gateway gives in the whole-pipeline specification.
GatewayResponses ==
    {Response(HttpOk, "list", Absent, "7001", Absent),
     Response(HttpOk, "list", Absent, Absent, "p1"),
     Response(HttpOk, "dict", "Rejected", Absent, Absent)}

\* 'order_id' in response.text, 'id' in response.text (lines 1079, 1083):
\* substring tests on the raw body.
TextHasOrderId(r) == r.order_id # Absent
TextHasId(r) == r.order_id # Absent \/ r.id # Absent \/ r.error \in TextsWithId

(***************************************************************************)
(* place_market_order / handle_order_confirmation                          *)
(***************************************************************************)

\* The string a call returns: which message, the order id it reports and
\* the broker's error text it contains (Absent when it contains none).
Message(kind, order_id, error_text) ==
    [kind |-> kind, order_id |-> order_id, error_text |-> error_text]

NoMessage == Message("none", Absent, Absent)

ConfirmedKinds == {"placed", "confirmed"}

\* OrderState.status of the spec's data model, read off the call's state.
OrderStatus(o) ==
    IF o.pc = "idle" THEN "None"
    ELSE IF o.pc = "confirming"
         THEN (IF o.replies = 0 THEN "Submitted" ELSE "AwaitingConfirmation")
         ELSE (IF o.message.kind \in ConfirmedKinds THEN "Confirmed" ELSE "Failed")

IdleOrder ==
    [pc |-> "idle", payload |-> [conid |-> Absent, quantity |-> 0, side |-> Absent],
     retry_count |-> 0, response_data |-> Response(HttpOk, "empty", Absent, Absent, Absent),
     received |-> <<>>, replies |-> 0, posts |-> 0, message |-> NoMessage]

\* The payload of the order POST (lines 1060-1071).
OrderPayload(conid, quantity) ==
    [conid |-> conid,
     quantity |-> IF quantity < 0 THEN -quantity ELSE quantity,
     side |-> IF quantity > 0 THEN "BUY" ELSE "SELL"]

Returned(o, msg) == [o EXCEPT !.pc = "returned", !.message = msg]

\* Lines 1073-1094: what place_market_order does with the response r to its
\* order POST.
AfterSubmit(o, r) ==
    IF r.shape = "nonjson"
    THEN Returned(o, Message("execute_failed", Absent, Absent))
    ELSE IF r.status = HttpOk
    THEN IF TextHasOrderId(r)
         THEN IF r.shape = "list"
              THEN Returned(o, Message("placed", r.order_id, Absent))
              ELSE Returned(o, Message("execute_failed", Absent, Absent))
         ELSE IF TextHasId(r)
              THEN [o EXCEPT !.pc = "confirming", !.response_data = r,
                             !.retry_count = 0]
              ELSE Returned(o, Message("unexpected_format", Absent, Absent))
    ELSE Returned(o, Message("http_error", Absent, r.error))

\* reply_order (lines 489-521) followed by response.json(): the reply POST
\* either yields new response data or raises.
ReplyRaises(r) == r.status # HttpOk \/ r.shape = "nonjson"

\* One iteration of the while loop of handle_order_confirmation (lines
\* 423-483) on response_data, r being the response to the reply it sends (if
\* it sends one).
AfterIteration(o, r) ==
    LET d == o.response_data
        sent == [o EXCEPT !.replies = @ + 1, !.received = Append(@, r)]
    IN  IF ~(o.retry_count < max_retries)
        THEN Returned(o, Message("retries_exhausted", Absent, Absent))
        ELSE IF d.shape \notin {"list", "dict"}
        THEN Returned(o, Message("invalid_format", Absent, Absent))
        ELSE IF d.error # Absent
        THEN IF o.retry_count + 1 < max_retries
             THEN IF d.id # Absent
                  THEN IF ReplyRaises(r)
                       THEN Returned(sent, Message("exception", Absent, Absent))
                       ELSE [sent EXCEPT !.retry_count = @ + 1, !.response_data = r]
                  ELSE Returned([o EXCEPT !.retry_count = @ + 1],
                                Message("no_id_for_retry", Absent, Absent))
             ELSE Returned([o EXCEPT !.retry_count = @ + 1],
                           Message("failed_after_attempts", Absent, d.error))
        ELSE IF d.order_id # Absent
        THEN Returned(o, Message("confirmed", d.order_id, Absent))
        ELSE IF d.id # Absent
        THEN IF ReplyRaises(r)
             THEN Returned(sent, Message("exception", Absent, Absent))
             ELSE IF o.retry_count + 1 >= max_retries
                  THEN Returned([sent EXCEPT !.retry_count = @ + 1, !.response_data = r],
                                Message("max_retries", Absent, Absent))
                  ELSE [sent EXCEPT !.retry_count = @ + 1, !.response_data = r]
        ELSE Returned(o, Message("unexpected_structure", Absent, Absent))

\* Whether the iteration on response_data sends a confirmation reply.
SendsReply(o) ==
    LET d == o.response_data
    IN  /\ o.retry_count < max_retries
        /\ d.shape \in {"list", "dict"}
        /\ d.id # Absent
        /\ IF d.error # Absent THEN o.retry_count + 1 < max_retries
                               ELSE d.order_id = Absent

\* place_market_order(account_id, conid, quantity, base_url): the order POST
\* and the handling of its response, the gateway answering from R.
place_market_order(conid, quantity, R) ==
    /\ ord.pc = "idle"
    /\ \E r \in R :
          ord' = AfterSubmit([IdleOrder EXCEPT !.payload = OrderPayload(conid, quantity),
                                               !.posts = 1,
                                               !.received = <<r>>], r)

\* handle_order_confirmation: one loop iteration.
handle_order_confirmation(R) ==
    /\ ord.pc = "confirming"
    /\ IF SendsReply(ord)
       THEN \E r \in R : ord' = AfterIteration(ord, r)
       ELSE ord' = AfterIteration(ord, ord.response_data)

(***************************************************************************)
(* Clock and the wash-sale table                                           *)
(***************************************************************************)

\* timedelta(days=31) of the purge (line 1020)
WashSaleDays == 31

\* Time-of-day slots 0..MaxTod of a run; slot 0 is exactly midnight.
MaxTod == 1

\* Runs of the 'rebalance' command explored.
MaxRuns == 2

\* Days that pass between two runs.
DayGaps == {1, WashSaleDays, WashSaleDays + 1}

\* A row of the "Wash Sales" table: the ticker and the day of its
\* 'Sold date' (a date, so midnight of that day once parsed, line 1014).
WashSale(ticker, sold) == [Ticker |-> ticker, Sold |-> sold]

\* washsale_df['Sold date'] + timedelta(days=31) >= current_date (line 1020):
\* the sold date is midnight of its day, current_date has a time of day.
Unexpired(rec, now) ==
    \/ rec.Sold + WashSaleDays > now.day
    \/ (rec.Sold + WashSaleDays = now.day /\ now.tod = 0)

SeqTickers(s) == {s[i].Ticker : i \in DOMAIN s}

\* A purge that keeps every record.
keep_all(table, now) == table

\* Line 1020: the purge.
purge(table, now) == SelectSeq(table, LAMBDA rec : Unexpired(rec, now))

\* Line 1024: refresh the sold date of every record of the ticker.
refresh(table, ticker, date) ==
    [i \in DOMAIN table |->
        IF table[i].Ticker = ticker THEN WashSale(ticker, date) ELSE table[i]]

\* Lines 1022-1026: the insert-or-refresh loop over the new candidates; a
\* ticker not yet in the table appends the whole of new_washsales_df.
RECURSIVE insert_or_refresh(_, _, _, _)
insert_or_refresh(table, todo, new_washsales, date) ==
    IF todo = <<>> THEN table
    ELSE LET ticker == Head(todo).Ticker
         IN  insert_or_refresh(
                 IF ticker \in SeqTickers(table)
                 THEN refresh(table, ticker, date)
                 ELSE table \o new_washsales,
                 Tail(todo), new_washsales, date)

(***************************************************************************)
(* Inputs of rebalance                                                     *)
(***************************************************************************)

\* Tickers in lexicographic order; "TOTAL" is the ticker of summary_row().
TickerOrder == <<"AAPL", "TOTAL", "XOM">>
Universe == {"AAPL", "XOM"}

\* conid of the summary row (line 627); int('') raises ValueError.
TotalConid == ""
ConidOrder == <<"", "265598", "265599", "13977">>
Conid(t) == IF t = "AAPL" THEN "265598" ELSE "13977"
UsableConids == {"265598", "265599", "13977"}

\* The conid of another listing of the ticker, as /trsrv/stocks may report
\* it (get_conid takes the first contract, line 312).
OtherConid(t) == "265599"

Rank(order, x) == CHOOSE i \in DOMAIN order : order[i] = x

\* (Ticker, conid) keys in the sorted order of an outer merge.
KeyBefore(a, b) ==
    \/ Rank(TickerOrder, a.Ticker) < Rank(TickerOrder, b.Ticker)
    \/ /\ a.Ticker = b.Ticker
       /\ Rank(ConidOrder, a.conid) < Rank(ConidOrder, b.conid)

RECURSIVE SortKeys(_)
SortKeys(S) ==
    IF S = {} THEN <<>>
    ELSE LET first == CHOOSE k \in S : \A other \in S \ {k} : KeyBefore(k, other)
         IN  <<first>> \o SortKeys(S \ {first})

\* df[column].sum()
RECURSIVE Sum(_, _)
Sum(df, column) ==
    IF df = {} THEN 0
    ELSE LET x == CHOOSE y \in df : TRUE IN x[column] + Sum(df \ {x}, column)

Abs(x) == IF x < 0 THEN -x ELSE x

Position(ticker, conid, position, mktValue, pnl) ==
    [Ticker |-> ticker, conid |-> conid, Position |-> position,
     mktValue |-> mktValue, PnL |-> pnl]

\* What the gateway can report for a held instrument: quantity, market
\* value, unrealized PnL.
Holdings(t) ==
    IF t = "AAPL"
    THEN {<<800, 40000, 300>>, <<8, 400, 30>>, <<8, 360, -5>>, <<100, 5000, -500>>,
          <<-100, -5000, 200>>, <<0, 0, 0>>}
    ELSE {<<1600, 40000, 300>>, <<100, 800, -500>>}

\* filter_positions (lines 594-605): records with position 0 are dropped.
filter_positions(records) == {p \in records : p.Position # 0}

\* f"{x:,.0f}", f"{x:,.2f}" (lines 569-570, 628-630): the text of a number;
\* it has thousands separators when the magnitude reaches 1000.
format_number(x) == [value |-> x, commas |-> Abs(x) >= 1000]

\* safe_convert_to_float (lines 550-559): the separators are removed first.
safe_convert_to_float(text) == text.value

\* pd.to_numeric(column, errors='coerce') on one cell (lines 952-954): a
\* text with thousands separators does not parse and becomes NaN.
to_numeric(text) ==
    [numeric |-> ~text.commas, value |-> IF text.commas THEN 0 ELSE text.value]

\* fillna on one cell (lines 977-983)
fillna(cell, value) == IF cell.numeric THEN cell.value ELSE value

\* summary_row (lines 615-635): the column sums, as texts.
summary_row(df) ==
    Position("TOTAL", TotalConid,
             format_number(Sum(df, "Position")), format_number(Sum(df, "mktValue")),
             format_number(Sum(df, "PnL")))

\* format_table (lines 561-575) on the rows of the gateway's records: every
\* numeric column becomes text.
format_table(df) ==
    {Position(p.Ticker, p.conid, format_number(p.Position),
              format_number(p.mktValue), format_number(p.PnL)) : p \in df}

\* format_table on the summary row, whose columns are texts already.
format_summary(s) ==
    Position(s.Ticker, s.conid, format_number(safe_convert_to_float(s.Position)),
             format_number(safe_convert_to_float(s.mktValue)),
             format_number(safe_convert_to_float(s.PnL)))

\* positions() on a successful response (lines 715-729): the filtered
\* records, with the summary row appended when there is more than one, as
\* format_table returns them.
positions(records) ==
    LET df == filter_positions(records)
    IN  IF Cardinality(df) > 1
        THEN format_table(df) \cup {format_summary(summary_row(df))}
        ELSE format_table(df)

\* The raw position records the gateway may return: at most one per ticker.
RawPositions ==
    {S \in SUBSET UNION {{Position(t, Conid(t), h[1], h[2], h[3]) : h \in Holdings(t)} :
                             t \in Universe} :
        \A p, q \in S : p.Ticker = q.Ticker => p = q}

Quote(ticker, conid, price) ==
    [Ticker |-> ticker, conid |-> conid, Last_Price |-> price]

Prices(t) == IF t = "AAPL" THEN {50} ELSE {25, 70, 80000}

NoMarketData == [columns |-> FALSE, rows |-> {}]

\* market_data() results: a frame with the quote columns and at most one
\* row per ticker, or the column-less pd.DataFrame() of its failure paths.
MarketData ==
    {[columns |-> TRUE, rows |-> S] :
        S \in {Q \in SUBSET UNION {{Quote(t, Conid(t), p) : p \in Prices(t)} :
                                      t \in Universe} :
                  \A a, b \in Q : a.Ticker = b.Ticker => a = b}}
    \cup {NoMarketData}

\* A float, or NaN when numeric is FALSE.
Amount(numeric, value) == [numeric |-> numeric, value |-> value]

\* A text of the 'amount' column: the number its digits spell, whether it
\* has a minus sign, whether it has a digit at all, and how many decimal
\* points it has.
AmountText(magnitude, negative, digits, points) ==
    [magnitude |-> magnitude, negative |-> negative, digits |-> digits,
     points |-> points]

\* f"{x:,.2f}" of account_summary (line 863)
FormattedAmount(x) == AmountText(Abs(x), x < 0, TRUE, 1)

\* Texts without a numeric reading: 'N/A' and '1.2.3'.
NotAvailable == AmountText(0, FALSE, FALSE, 0)
TwoPoints == AmountText(123, FALSE, TRUE, 2)

\* A cleaning that reads 0 where float() raises.
clean_numeric_or_zero(text) ==
    IF text.digits /\ text.points <= 1
    THEN [numeric |-> TRUE, value |-> text.magnitude]
    ELSE [numeric |-> TRUE, value |-> 0]

\* clean_numeric (lines 882-904) on a text: every character but digits and
\* '.' is removed (the minus sign too), and float() of the rest is taken,
\* NaN when it raises ValueError.
clean_numeric(text) ==
    IF text.digits /\ text.points <= 1
    THEN Amount(TRUE, text.magnitude)
    ELSE Amount(FALSE, 0)

Summary(has_cash, has_netliq, cash, netliq) ==
    [has_totalcashvalue |-> has_cash, has_netliquidation |-> has_netliq,
     totalcashvalue |-> cash, netliquidation |-> netliq]

\* Summary frames: which of the required rows are present, and the texts of
\* their amounts.
ValidSummaries ==
    {Summary(TRUE, TRUE, FormattedAmount(20000), FormattedAmount(100000)),
     Summary(TRUE, TRUE, FormattedAmount(200), FormattedAmount(1000))}
InvalidSummaries ==
    {Summary(TRUE, FALSE, FormattedAmount(20000), NotAvailable),
     Summary(FALSE, TRUE, NotAvailable, FormattedAmount(100000)),
     Summary(TRUE, TRUE, FormattedAmount(20000), NotAvailable),
     Summary(TRUE, TRUE, TwoPoints, FormattedAmount(100000))}

\* The inputs main hands to rebalance: every snapshot with a valid summary,
\* and the invalid summaries with one snapshot.
RunInputs ==
    (ValidSummaries \X RawPositions \X MarketData)
    \cup (InvalidSummaries \X {{}} \X {[columns |-> TRUE, rows |-> {Quote("AAPL", Conid("AAPL"), 50)}]})

\* tolerance = 0.10 (line 1468), as a fraction
DefaultTolerance == [num |-> 1, den |-> 10]

(***************************************************************************)
(* rebalance                                                               *)
(***************************************************************************)

Fraction(num, den) == [num |-> num, den |-> den]

\* A quotient cut down to an integer instead of rounded.
round_down(num, den) == num \div den

\* round() of a non-negative quotient num/den: to the nearest integer, a
\* tie going to the even one.
round(num, den) ==
    LET q == num \div den
        r == num % den
    IN  IF 2 * r < den THEN q
        ELSE IF 2 * r > den THEN q + 1
        ELSE IF q % 2 = 0 THEN q ELSE q + 1

\* A target that allocates the whole of net liquidation.
full_market_value(netliquidation, num_tickers) ==
    [num |-> netliquidation, den |-> num_tickers]

\* Line 962: (netliquidation * 0.8) / num_tickers, for num_tickers > 0.
target_market_value(netliquidation, num_tickers) ==
    Fraction(4 * netliquidation, 5 * num_tickers)

\* Lines 964-965: the quote rows with their targets.
targets(netliquidation, rows) ==
    LET value == target_market_value(netliquidation, Cardinality(rows))
    IN  {[Ticker |-> q.Ticker, conid |-> q.conid, Last_Price |-> q.Last_Price,
          Target_Market_Value |-> value,
          Target_Shares |-> round(value.num, value.den * q.Last_Price)] : q \in rows}

\* Line 993: Difference / Target Market Value; dividing by a zero target
\* gives an infinity, or NaN when the difference is zero too.
difference_pct(difference, target) ==
    IF target.num = 0
    THEN [kind |-> IF difference.num = 0 THEN "nan" ELSE "inf", num |-> 0, den |-> 1]
    ELSE [kind |-> "finite", num |-> difference.num, den |-> target.num]

\* Lines 986-989: Target Shares - Position, and -Position where Target
\* Shares is 0.
trade_quantity(target_shares, position) ==
    IF target_shares = 0 THEN -position ELSE target_shares - position

\* Lines 952-954 and 968-993: the row of the outer merge for one (Ticker,
\* conid) key, the position columns read by to_numeric, NaN and the missing
\* side filled with 0 (Last Price stays NaN, written 0).
plan_row(key, target_rows, positions_rows) ==
    LET ts == {t \in target_rows : t.Ticker = key.Ticker /\ t.conid = key.conid}
        ps == {p \in positions_rows : p.Ticker = key.Ticker /\ p.conid = key.conid}
        t == CHOOSE x \in ts : TRUE
        p == CHOOSE x \in ps : TRUE
        target_shares == IF ts = {} THEN 0 ELSE t.Target_Shares
        target_value == IF ts = {} THEN Fraction(0, 1) ELSE t.Target_Market_Value
        position == IF ps = {} THEN 0 ELSE fillna(to_numeric(p.Position), 0)
        mktValue == IF ps = {} THEN 0 ELSE fillna(to_numeric(p.mktValue), 0)
        difference == Fraction(target_value.num - mktValue * target_value.den,
                               target_value.den)
    IN  [Ticker |-> key.Ticker, conid |-> key.conid,
         Last_Price |-> IF ts = {} THEN 0 ELSE t.Last_Price,
         Target_Shares |-> target_shares,
         Target_Market_Value |-> target_value,
         Position |-> position, mktValue |-> mktValue,
         PnL |-> IF ps = {} THEN 0 ELSE fillna(to_numeric(p.PnL), 0),
         Trade_Quantity |-> trade_quantity(target_shares, position),
         Difference |-> difference,
         Difference_pct |-> difference_pct(difference, target_value)]

Key(r) == [Ticker |-> r.Ticker, conid |-> r.conid]

\* A left join in place of the outer join: rows of the targets only.
merge_left(target_rows, positions_rows) ==
    LET keys == SortKeys({Key(r) : r \in target_rows})
    IN  [i \in DOMAIN keys |-> plan_row(keys[i], target_rows, positions_rows)]

\* Lines 968-993: the merged frame, sorted on the join keys.
merge(target_rows, positions_rows) ==
    LET keys == SortKeys({Key(r) : r \in target_rows \cup positions_rows})
    IN  [i \in DOMAIN keys |-> plan_row(keys[i], target_rows, positions_rows)]

\* abs(Difference (%)) >= tolerance: the boundary counted as outside.
exceeds_or_equal(pct, tol) ==
    IF pct.kind = "nan" THEN FALSE
    ELSE IF pct.kind = "inf" THEN TRUE
    ELSE Abs(pct.num) * tol.den >= tol.num * Abs(pct.den)

\* abs(Difference (%)) > tolerance
exceeds(pct, tol) ==
    IF pct.kind = "nan" THEN FALSE
    ELSE IF pct.kind = "inf" THEN TRUE
    ELSE Abs(pct.num) * tol.den > tol.num * Abs(pct.den)

\* Lines 998-1001: the rows that go into the trade list.
selected(r, tol) == exceeds(r.Difference_pct, tol) \/ r.Target_Shares = 0

\* Line 1017: the new wash-sale candidates among the trade rows.
loss_sale(r) == r.PnL < 0 /\ r.Trade_Quantity < 0

\* A suppression that removes the sells of wash-sale tickers only.
suppress_sells(trades, table) ==
    SelectSeq(trades, LAMBDA r : r.Ticker \notin SeqTickers(table) \/ r.Trade_Quantity > 0)

\* Line 1028: the trade rows whose ticker is not in the wash-sale set.
suppress(trades, table) ==
    SelectSeq(trades, LAMBDA r : r.Ticker \notin SeqTickers(table))

\* A failing call that leaves the table without its records.
reject_and_clear(outcome, table) ==
    [result |-> outcome, loaded |-> table, rebalance_df |-> <<>>,
     filtered_df |-> <<>>, trade_df |-> <<>>, washsale_df |-> <<>>, table |-> <<>>]

\* The returns of (None, None) (lines 932-958) and the exception of line
\* 962: update_washsales (line 1031) has not been reached.
Rejected(outcome, table) ==
    [result |-> outcome, loaded |-> table, rebalance_df |-> <<>>,
     filtered_df |-> <<>>, trade_df |-> <<>>, washsale_df |-> <<>>, table |-> table]

\* rebalance(summary_df, positions_df, market_data_df, tolerance) run at
\* `now` on the persisted table: how it ends, its locals, what it returns
\* and the table it leaves.
rebalance(summary, positions_rows, market, tol, table, now) ==
    IF ~(summary.has_totalcashvalue /\ summary.has_netliquidation)
    THEN Rejected("invalid", table)
    ELSE IF ~market.columns
    THEN Rejected("invalid", table)
    ELSE IF ~(clean_numeric(summary.totalcashvalue).numeric
              /\ clean_numeric(summary.netliquidation).numeric)
    THEN Rejected("invalid", table)
    ELSE IF Cardinality(market.rows) = 0
    THEN Rejected("raised", table)
    ELSE
    LET merged == merge(targets(clean_numeric(summary.netliquidation).value, market.rows),
                        positions_rows)
        trades == SelectSeq(merged, LAMBDA r : selected(r, tol))
        candidates == SelectSeq(trades, loss_sale)
        new_washsales == [i \in DOMAIN candidates |->
                             WashSale(candidates[i].Ticker, now.day)]
        updated == insert_or_refresh(purge(table, now), new_washsales,
                                     new_washsales, now.day)
    IN  [result |-> "ok", loaded |-> table, rebalance_df |-> merged,
         filtered_df |-> trades,
         trade_df |-> suppress(trades, updated), washsale_df |-> updated,
         table |-> updated]

(***************************************************************************)
(* Screener tables, read_from_db, group_and_combine, get_tickers           *)
(***************************************************************************)

\* The filters of filters.json, each with a table of its name, and the
\* strategies of strategies.json with the filters they combine.
Filters == {"value", "growth"}
strategies_group ==
    [s \in {"value_growth", "growth"} |->
        IF s = "value_growth" THEN <<"value", "growth">> ELSE <<"growth">>]

\* Rows a table may hold before a call of get_tickers is explored.
MaxRows == 2

\* The last day on which the screener tables are explored.
MaxScreenerDay == 1

\* What the screener API returns for one filter (line 176).
ScreenerResults == {<<>>, <<"AAPL">>, <<"XOM">>, <<"AAPL", "XOM">>}

TableRow(date, ticker) == [date |-> date, ticker |-> ticker]

\* save_to_db (lines 91-100): the rows are appended to the table.
save_to_db(table, date, tickers) ==
    table \o [i \in DOMAIN tickers |-> TableRow(date, tickers[i])]

\* api_request (lines 218-232): every filter with a non-empty result gets
\* its tickers saved under today's date.
api_request(db, results, date) ==
    [f \in Filters |->
        IF results[f] # <<>> THEN save_to_db(db[f], date, results[f]) ELSE db[f]]

\* SELECT MAX(date) of a table with rows.
MaxDate(table) ==
    CHOOSE d \in {table[i].date : i \in DOMAIN table} :
        \A i \in DOMAIN table : table[i].date <= d

\* read_from_db (lines 108-142): for every table with rows, the rows of its
\* latest date.
read_from_db(db) ==
    [f \in {g \in Filters : db[g] # <<>>} |->
        LET latest == SelectSeq(db[f], LAMBDA r : r.date = MaxDate(db[f]))
        IN  [Latest_Date |-> MaxDate(db[f]),
             Number_of_tickers |-> Len(latest),
             Tickers |-> [i \in DOMAIN latest |-> latest[i].ticker]]]

SeqSet(seq) == {seq[i] : i \in DOMAIN seq}

\* sorted(list(combined_tickers))
RECURSIVE SortTickers(_)
SortTickers(S) ==
    IF S = {} THEN <<>>
    ELSE LET first == CHOOSE t \in S :
                         \A other \in S : Rank(TickerOrder, t) <= Rank(TickerOrder, other)
         IN  <<first>> \o SortTickers(S \ {first})

\* group_and_combine (lines 178-200): per strategy, the union of the tickers
\* of its filters that have data; a strategy without tickers is left out.
group_and_combine(screeners_dict, group) ==
    LET present(s) == {f \in SeqSet(group[s]) : f \in DOMAIN screeners_dict}
        combined(s) == UNION {SeqSet(screeners_dict[f].Tickers) : f \in present(s)}
        latest(s) == CHOOSE d \in {screeners_dict[f].Latest_Date : f \in present(s)} :
                        \A f \in present(s) : screeners_dict[f].Latest_Date <= d
    IN  [s \in {x \in DOMAIN group : combined(x) # {}} |->
            [Latest_Date |-> latest(s),
             Number_of_tickers |-> Cardinality(combined(s)),
             Tickers |-> SortTickers(combined(s))]]

\* get_tickers (lines 242-283) on the tables db on day date, first and
\* second being what the screener API returns if it is asked: the tables
\* it leaves and the strategies it computes.
get_tickers(db, first, second, date) ==
    LET filled == IF DOMAIN read_from_db(db) = {} THEN api_request(db, first, date) ELSE db
        grouped == group_and_combine(read_from_db(filled), strategies_group)
        outdated == \E s \in DOMAIN grouped : grouped[s].Latest_Date < date
        updated == IF outdated THEN api_request(filled, second, date) ELSE filled
    IN  [db |-> updated,
         strategies |-> group_and_combine(read_from_db(updated), strategies_group)]

(***************************************************************************)
(* positions: the request loop                                             *)
(***************************************************************************)

\* A retry budget one larger than the source's.
positions_retries_plus_one == 3 + 1

\* max_retries of positions (line 710)
positions_max_retries == 3

\* What one GET of the positions endpoint comes to: "ok" is status 200 with a
\* JSON list of records, "not_json" status 200 with a body response.json()
\* cannot decode, "object" status 200 with a non-empty JSON object,
\* "http_error" another status, "request_error" a RequestException raised by
\* requests.get.
PositionsResponse(kind, records) == [kind |-> kind, records |-> records]

FailedKinds == {"http_error", "request_error"}

PositionsResponses ==
    {PositionsResponse("ok", S) : S \in RawPositions}
    \cup {PositionsResponse(k, {}) : k \in {"not_json", "object"} \cup FailedKinds}

\* What positions() returns: nothing yet, None, or a frame of rows.
NoResult == [kind |-> "none", rows |-> {}]
Unavailable == [kind |-> "None", rows |-> {}]
Snapshot(rows) == [kind |-> "snapshot", rows |-> rows]

IdlePositions ==
    [pc |-> "idle", attempt |-> 0, responses |-> <<>>, result |-> NoResult]

\* One iteration of the for loop of positions() (lines 711-757), r being
\* what its GET comes to.
positions_attempt(p, r) ==
    LET sent == [p EXCEPT !.responses = Append(@, r)]
    IN  IF r.kind = "ok"
        THEN [sent EXCEPT !.pc = "returned", !.result = Snapshot(positions(r.records))]
        ELSE IF r.kind = "not_json"
        THEN [sent EXCEPT !.pc = "returned", !.result = Unavailable]
        ELSE IF r.kind = "object"
        THEN [sent EXCEPT !.pc = "raised"]
        ELSE IF p.attempt < positions_max_retries - 1
        THEN [sent EXCEPT !.attempt = @ + 1]
        ELSE [sent EXCEPT !.pc = "returned", !.result = Unavailable]

(***************************************************************************)
(* market_data: the requests of one call                                   *)
(***************************************************************************)

\* What a GET comes to: "ok" is a status raise_for_status() accepts, with the
\* body given; "http_error" a status it raises on; "request_error" a
\* RequestException raised by requests.get.
Reply(kind, body) == [kind |-> kind, body |-> body]

\* The contracts /trsrv/stocks finds for the tickers (lines 305-319).
ConidReplies ==
    {Reply("ok", {[Ticker |-> t, conid |-> Conid(t)] : t \in T}) : T \in SUBSET Universe}
    \cup {Reply("http_error", {})}

\* An item of a snapshot body: whether it has all of the keys '55', 'conid',
\* '31', '7289' (line 378), and whether float() reads its field '31' (line
\* 392).
SnapshotItem(ticker, price, complete, numeric) ==
    [Ticker |-> ticker, conid |-> Conid(ticker), Last_Price |-> price,
     complete |-> complete, numeric |-> numeric]

SnapshotItems ==
    {SnapshotItem("AAPL", 50, TRUE, TRUE), SnapshotItem("XOM", 25, TRUE, TRUE),
     SnapshotItem("XOM", 0, FALSE, TRUE), SnapshotItem("AAPL", 0, TRUE, FALSE)}

SnapshotReplies ==
    {Reply("ok", B) : B \in {S \in SUBSET SnapshotItems :
                                \A a, b \in S : a.Ticker = b.Ticker => a = b}}
    \cup {Reply(k, {}) : k \in {"http_error", "request_error"}}

AccountsReplies == {Reply(k, {}) : k \in {"ok", "http_error", "request_error"}}

IdleMarketData ==
    [pc |-> "idle", requests |-> <<>>, replies |-> <<>>, result |-> NoMarketData]

\* The first snapshot response in place of the one the parse reads.
first_snapshot_response(replies) == replies[3]

\* `response` at line 371: the result of the last requests.get assigned to it.
response(replies) == replies[Len(replies)]

\* Lines 371-395: the frame made of a snapshot body; ValueError (no data, no
\* item with the keys, a price float() cannot read) gives pd.DataFrame().
parse_snapshot(body) ==
    LET filtered_data == {item \in body : item.complete}
    IN  IF filtered_data = {} \/ \E item \in filtered_data : ~item.numeric
        THEN NoMarketData
        ELSE [columns |-> TRUE,
              rows |-> {Quote(item.Ticker, item.conid, item.Last_Price) :
                           item \in filtered_data}]

\* The endpoint the call asks next.
Endpoint(m) ==
    IF m.pc = "accounts" THEN "iserver/accounts"
    ELSE IF m.pc = "conid" THEN "trsrv/stocks"
    ELSE "marketdata/snapshot"

\* The replies the gateway may give to that request.
RepliesFor(m) ==
    IF m.pc = "accounts" THEN AccountsReplies
    ELSE IF m.pc = "conid" THEN ConidReplies
    ELSE SnapshotReplies

\* One request of market_data (lines 345-405) and what the call does with
\* its reply r: a failed request, or no usable conid, ends the call with
\* pd.DataFrame(); the body of the first snapshot is not read.
market_data_request(m, r) ==
    LET sent == [m EXCEPT !.requests = Append(@, Endpoint(m)), !.replies = Append(@, r)]
        failed == [sent EXCEPT !.pc = "returned", !.result = NoMarketData]
    IN  IF r.kind # "ok" THEN failed
        ELSE IF m.pc = "accounts" THEN [sent EXCEPT !.pc = "conid"]
        ELSE IF m.pc = "conid"
        THEN (IF r.body = {} THEN failed ELSE [sent EXCEPT !.pc = "snapshot"])
        ELSE IF m.pc = "snapshot" THEN [sent EXCEPT !.pc = "snapshot_again"]
        ELSE [sent EXCEPT !.pc = "returned",
                          !.result = parse_snapshot(response(sent.replies).body)]

(***************************************************************************)
(* main ('rebalance' command), execute_trades                              *)
(***************************************************************************)

NoSummary == Summary(FALSE, FALSE, NotAvailable, NotAvailable)

NoDate == [day |-> 0, tod |-> 0]

\* No call of rebalance() is in progress.
NoFrame ==
    /\ summary_df' = NoSummary
    /\ positions_df' = {}
    /\ market_data_df' = NoMarketData
    /\ tolerance' = DefaultTolerance
    /\ current_date' = NoDate
    /\ washsale_loaded' = <<>>
    /\ rebalance_df' = <<>>
    /\ filtered_df' = <<>>

\* The outcome of the lookups of main: the trading-group secret (line
\* 1410), the alias of the topic (line 1419), get_account_id (line 1424),
\* the strategy secret (line 1441) and the strategy's entry in the result of
\* get_tickers (line 1446).
Config(trading_group, alias_id, account_id, strategy) ==
    [trading_group |-> trading_group, alias_id |-> alias_id,
     account_id |-> account_id, strategy |-> strategy]

NoConfig == Config("unset", "unset", "unset", "unset")

\* get_account_id (lines 523-547): the account id, or None when a secret
\* lookup fails.
AccountIds == {"U1", "None"}

\* market_data (lines 345-373) and get_conid (line 301): the requests sent
\* to the gateway at the URL of line 1451.
MarketDataRequests == <<"iserver/accounts", "trsrv/stocks", "marketdata/snapshot",
                        "marketdata/snapshot">>

Init ==
    /\ today = 0
    /\ washsales = <<>>
    /\ runs = 0
    /\ pc = "idle"
    /\ config = NoConfig
    /\ gateway_log = <<>>
    /\ summary_df = NoSummary
    /\ positions_df = {}
    /\ market_data_df = NoMarketData
    /\ tolerance = DefaultTolerance
    /\ current_date = NoDate
    /\ washsale_loaded = <<>>
    /\ rebalance_df = <<>>
    /\ filtered_df = <<>>
    /\ trade_df = <<>>
    /\ washsale_df = <<>>
    /\ result = "none"
    /\ row = 0
    /\ order_log = <<>>
    /\ ord = IdleOrder
    /\ pos = IdlePositions
    /\ screener_db = [f \in Filters |-> <<>>]
    /\ strategies = <<>>
    /\ md = IdleMarketData
    /\ sales = {}

\* main, lines 1410-1424: the trading group, the alias of the topic and the
\* account.  A missing trading group or alias raises ValueError; the result
\* of get_account_id is not examined.
MainStart ==
    /\ pc = "idle"
    /\ runs < MaxRuns
    /\ \/ /\ config' = Config("missing", "unset", "unset", "unset")
          /\ pc' = "exited"
       \/ /\ config' = Config("ok", "missing", "unset", "unset")
          /\ pc' = "exited"
       \/ /\ \E a \in AccountIds : config' = Config("ok", "ok", a, "unset")
          /\ pc' = "configured"
    /\ UNCHANGED <<worldVars, frameVars, planVars, gateway_log, row, order_log, ord>>
    /\ UNCHANGED callVars

\* main, lines 1441-1453: the strategy secret, get_tickers, market_data.  A
\* missing secret raises ValueError; a strategy get_tickers does not know
\* comes back as a text, on which format_tickers_message raises.
GetMarketData ==
    /\ pc = "configured"
    /\ \/ /\ \E missing \in {"missing", "unknown"} :
                config' = [config EXCEPT !.strategy = missing]
          /\ pc' = "exited"
          /\ UNCHANGED gateway_log
       \/ /\ config' = [config EXCEPT !.strategy = "ok"]
          /\ gateway_log' = gateway_log \o MarketDataRequests
          /\ pc' = "quoted"
    /\ UNCHANGED <<worldVars, frameVars, planVars, row, order_log, ord>>
    /\ UNCHANGED callVars

\* main, lines 1456-1458, without an account: account_summary(None, None)
\* fails on its URL and returns None, and summary_df.reset_index() raises.
AccountSummaryFails ==
    /\ pc = "quoted"
    /\ config.account_id = "None"
    /\ pc' = "exited"
    /\ UNCHANGED <<worldVars, frameVars, planVars, configVars, row, order_log, ord>>
    /\ UNCHANGED callVars

\* main, lines 1456-1468: rebalance is called on a summary, a position
\* snapshot and a quote frame.  The frames range over the argument domain of
\* rebalance (RunInputs), which includes frames without columns and frames
\* without rows; main's logging of the frames (lines 1453-1465) is not
\* modelled.  A result of (None, None) or an exception ends the command
\* (sys.exit(1)).
RebalanceOn(inputs) ==
    /\ pc = "quoted"
    /\ config.account_id # "None"
    /\ runs < MaxRuns
    /\ gateway_log' = gateway_log \o <<"portfolio/summary", "portfolio/positions">>
    /\ UNCHANGED <<config, sales>>
    /\ runs' = runs + 1
    /\ \E gap \in (IF runs = 0 THEN {0} ELSE DayGaps), tod \in 0..MaxTod :
          /\ today' = today + gap
          /\ current_date' = [day |-> today + gap, tod |-> tod]
    /\ \E in \in inputs :
          LET out == rebalance(in[1], positions(in[2]), in[3], DefaultTolerance,
                               washsales, current_date')
          IN  /\ summary_df' = in[1]
              /\ positions_df' = positions(in[2])
              /\ market_data_df' = in[3]
              /\ tolerance' = DefaultTolerance
              /\ washsale_loaded' = out.loaded
              /\ rebalance_df' = out.rebalance_df
              /\ filtered_df' = out.filtered_df
              /\ trade_df' = out.trade_df
              /\ washsale_df' = out.washsale_df
              /\ result' = out.result
              /\ washsales' = out.table
              /\ pc' = IF out.result = "ok" THEN "planned" ELSE "exited"
    /\ UNCHANGED <<row, order_log, ord>>
    /\ UNCHANGED callVars

\* The 'rebalance' command on any frames.
RebalanceCommand == RebalanceOn(RunInputs)

\* main, lines 1469-1477: execute_trades(trade_df, account_id, base_url) is
\* called with the trade list alone; rebalance's frame is gone.
ExecuteTrades ==
    /\ pc = "planned"
    /\ pc' = "trading"
    /\ row' = 1
    /\ NoFrame
    /\ UNCHANGED <<worldVars, planVars, order_log, ord>>
    /\ UNCHANGED configVars
    /\ UNCHANGED callVars

\* int(row['conid']) (line 1115)
UsableConid(conid) == conid \in UsableConids

\* A sell order sent for a ticker held at a loss, and the day it was sent.
Sale(ticker, day) == [Ticker |-> ticker, day |-> day]

\* execute_trades, lines 1114-1123: the next row; its conid and quantity are
\* converted outside the try block, then the order is placed.
ExecuteRow ==
    /\ pc = "trading"
    /\ ord.pc = "idle"
    /\ row <= Len(trade_df)
    /\ IF UsableConid(trade_df[row].conid)
       THEN /\ place_market_order(trade_df[row].conid, trade_df[row].Trade_Quantity,
                                  GatewayResponses)
            /\ order_log' = Append(order_log, [row |-> row, payload |-> ord'.payload])
            /\ pc' = pc
       ELSE /\ pc' = "exited"
            /\ UNCHANGED <<ord, order_log>>
    /\ sales' = IF UsableConid(trade_df[row].conid) /\ loss_sale(trade_df[row])
               THEN sales \cup {Sale(trade_df[row].Ticker, today)}
               ELSE sales
    /\ UNCHANGED <<today, washsales, runs, frameVars, planVars, row>>
    /\ UNCHANGED configVars
    /\ UNCHANGED callVars

\* place_market_order, line 1084: one iteration of the loop of
\* handle_order_confirmation on the prompt the gateway returned.
ConfirmRow ==
    /\ pc = "trading"
    /\ handle_order_confirmation(GatewayResponses)
    /\ UNCHANGED <<worldVars, frameVars, planVars, pc, row, order_log>>
    /\ UNCHANGED configVars
    /\ UNCHANGED callVars

\* Lines 1125-1126: the order's message is logged; on to the next row.
OrderLogged ==
    /\ pc = "trading"
    /\ ord.pc = "returned"
    /\ ord' = IdleOrder
    /\ row' = row + 1
    /\ UNCHANGED <<worldVars, frameVars, planVars, pc, order_log>>
    /\ UNCHANGED configVars
    /\ UNCHANGED callVars

\* The loop of execute_trades ends.
ExecuteDone ==
    /\ pc = "trading"
    /\ ord.pc = "idle"
    /\ row > Len(trade_df)
    /\ pc' = "done"
    /\ UNCHANGED <<worldVars, frameVars, planVars, row, order_log, ord>>
    /\ UNCHANGED configVars
    /\ UNCHANGED callVars

\* The process ends; only the table (and the calendar) outlive it.
ProcessExit ==
    /\ pc \in {"done", "exited"}
    /\ pc' = "idle"
    /\ NoFrame
    /\ trade_df' = <<>>
    /\ washsale_df' = <<>>
    /\ result' = "none"
    /\ row' = 0
    /\ order_log' = <<>>
    /\ ord' = IdleOrder
    /\ config' = NoConfig
    /\ gateway_log' = <<>>
    /\ UNCHANGED worldVars
    /\ UNCHANGED callVars

Next ==
    \/ MainStart
    \/ GetMarketData
    \/ AccountSummaryFails
    \/ RebalanceCommand
    \/ ExecuteTrades
    \/ ExecuteRow
    \/ ConfirmRow
    \/ OrderLogged
    \/ ExecuteDone
    \/ ProcessExit

Spec == Init /\ [][Next]_vars

(***************************************************************************)
(* One call of place_market_order, on any order and any broker answers     *)
(***************************************************************************)

Quantities == {-2, -1, 1, 2}

OrderCall ==
    /\ pc = "idle"
    /\ \E conid \in UsableConids, quantity \in Quantities :
          place_market_order(conid, quantity, BrokerResponses)
    /\ UNCHANGED <<worldVars, frameVars, planVars, pc, row, order_log>>
    /\ UNCHANGED configVars
    /\ UNCHANGED callVars

OrderConfirm ==
    /\ pc = "idle"
    /\ handle_order_confirmation(BrokerResponses)
    /\ UNCHANGED <<worldVars, frameVars, planVars, pc, row, order_log>>
    /\ UNCHANGED configVars
    /\ UNCHANGED callVars

OrderNext == OrderCall \/ OrderConfirm

\* The program is sequential: a call that can take a step takes it.
OrderSpec == Init /\ [][OrderNext]_vars /\ WF_vars(OrderNext)

(***************************************************************************)
(* One call of positions, on any answers of the gateway                    *)
(***************************************************************************)

PositionsCall ==
    /\ pc = "idle"
    /\ pos.pc = "idle"
    /\ pos' = [IdlePositions EXCEPT !.pc = "requesting"]
    /\ UNCHANGED <<worldVars, frameVars, planVars, pc, row, order_log, ord>>
    /\ UNCHANGED <<configVars, screener_db, strategies, md>>

PositionsAttempt ==
    /\ pc = "idle"
    /\ pos.pc = "requesting"
    /\ pos.attempt < positions_max_retries
    /\ \E r \in PositionsResponses : pos' = positions_attempt(pos, r)
    /\ UNCHANGED <<worldVars, frameVars, planVars, pc, row, order_log, ord>>
    /\ UNCHANGED <<configVars, screener_db, strategies, md>>

PositionsNext == PositionsCall \/ PositionsAttempt

PositionsSpec == Init /\ [][PositionsNext]_vars

(***************************************************************************)
(* One call of market_data, on any answers of the gateway                  *)
(***************************************************************************)

MarketDataCall ==
    /\ pc = "idle"
    /\ md.pc = "idle"
    /\ md' = [IdleMarketData EXCEPT !.pc = "accounts"]
    /\ UNCHANGED <<worldVars, frameVars, planVars, pc, row, order_log, ord>>
    /\ UNCHANGED <<configVars, pos, screener_db, strategies>>

MarketDataRequest ==
    /\ pc = "idle"
    /\ md.pc \in {"accounts", "conid", "snapshot", "snapshot_again"}
    /\ \E r \in RepliesFor(md) : md' = market_data_request(md, r)
    /\ UNCHANGED <<worldVars, frameVars, planVars, pc, row, order_log, ord>>
    /\ UNCHANGED <<configVars, pos, screener_db, strategies>>

MarketDataNext == MarketDataCall \/ MarketDataRequest

MarketDataSpec == Init /\ [][MarketDataNext]_vars

(***************************************************************************)
(* The 'cash_all' command among the runs                                   *)
(***************************************************************************)

\* cash_all (lines 1255-1301) on the snapshot positions() returns: the rows
\* it has place_market_order called for (quantity -Position other than 0,
\* lines 1286-1291), of which those with a conid int() reads are posted
\* (line 1064).
cash_all(snapshot) ==
    {r \in snapshot : /\ fillna(to_numeric(r.Position), 0) # 0
                      /\ UsableConid(r.conid)}

\* main, lines 1478-1485, for 'cash_all' with the account resolved: the
\* positions are fetched and a market order is placed for each; the frame of
\* negative-PnL rows cash_all returns is logged.  The "Wash Sales" table is
\* not opened.  Only the sales at a loss leave a trace in the state, so a
\* call that makes none is a stuttering step; one call a day is explored.
CashAllCommand ==
    /\ pc = "idle"
    /\ \A s \in sales : s.day # today
    /\ \E records \in RawPositions :
          sales' = sales \cup {Sale(r.Ticker, today) :
                                r \in {x \in cash_all(positions(records)) :
                                          /\ x.Position.value > 0
                                          /\ x.PnL.value < 0}}
    /\ sales' # sales
    /\ UNCHANGED <<today, washsales, runs, frameVars, planVars, configVars, pc, row,
                   order_log, ord>>
    /\ UNCHANGED callVars

LedgerNext == CashAllCommand \/ Next

LedgerSpec == Init /\ [][LedgerNext]_vars

(***************************************************************************)
(* Runs whose quotes may carry the conid of another listing                *)
(***************************************************************************)

\* Quote frames in which AAPL is quoted under either conid.
ListingMarketData ==
    {[columns |-> TRUE, rows |-> S] :
        S \in {Q \in SUBSET {Quote("AAPL", Conid("AAPL"), 50),
                              Quote("AAPL", OtherConid("AAPL"), 50),
                              Quote("XOM", Conid("XOM"), 25)} :
                  /\ Q # {}
                  /\ \A a, b \in Q : a.Ticker = b.Ticker => a = b}}

ListingInputs == ValidSummaries \X RawPositions \X ListingMarketData

ListingRebalance == RebalanceOn(ListingInputs)

ListingNext ==
    \/ MainStart
    \/ GetMarketData
    \/ AccountSummaryFails
    \/ ListingRebalance
    \/ ExecuteTrades
    \/ ExecuteRow
    \/ ConfirmRow
    \/ OrderLogged
    \/ ExecuteDone
    \/ ProcessExit

ListingSpec == Init /\ [][ListingNext]_vars

(***************************************************************************)
(* Repeated runs on a ticker that left the strategy universe               *)
(***************************************************************************)

\* The ticker that is held at a loss and is no longer quoted.
Dropped == "XOM"

\* The frames of such a run: a valid summary, the dropped ticker held with
\* a negative PnL next to another long holding that is not at a loss, and
\* quotes of other tickers only.
DroppedInputs ==
    {in \in RunInputs :
        /\ in[1] \in ValidSummaries
        /\ \E p \in in[2] : p.Ticker = Dropped /\ p.Position # 0 /\ p.PnL < 0
        /\ \E p \in in[2] : p.Ticker # Dropped
        /\ \A p \in in[2] : p.Position > 0
        /\ \A p \in in[2] : p.Ticker # Dropped => p.PnL >= 0
        /\ in[3].rows # {}
        /\ \A q \in in[3].rows : q.Ticker # Dropped}

\* The lookups of main succeed.
DroppedStart == MainStart /\ pc' = "configured" /\ config'.account_id # "None"

DroppedQuotes == GetMarketData /\ pc' = "quoted"

DroppedRebalance == RebalanceOn(DroppedInputs)

\* The gateway confirms every order it is sent: it answers with the order
\* id, at once or after one prompt.
DroppedExecuteRow ==
    /\ ExecuteRow
    /\ ord'.pc = "returned" => ord'.message.kind \in ConfirmedKinds

DroppedConfirmRow ==
    /\ ConfirmRow
    /\ ord'.response_data.order_id # Absent
    /\ ord'.response_data.error = Absent

\* The process ends.  rebalance depends on differences of days only (lines
\* 1016-1020), so from here on the days are counted from the day of this
\* run: the calendar and the dates of the records are shifted by it, a sale
\* older than the window is forgotten, and the runs go on without end through
\* finitely many states.
DroppedExit ==
    /\ pc \in {"done", "exited"}
    /\ pc' = "idle"
    /\ NoFrame
    /\ trade_df' = <<>>
    /\ washsale_df' = <<>>
    /\ result' = "none"
    /\ row' = 0
    /\ order_log' = <<>>
    /\ ord' = IdleOrder
    /\ config' = NoConfig
    /\ gateway_log' = <<>>
    /\ today' = 0
    /\ washsales' = [i \in DOMAIN washsales |->
                        WashSale(washsales[i].Ticker, washsales[i].Sold - today)]
    /\ sales' = {Sale(s.Ticker, s.day - today) :
                    s \in {x \in sales : today - x.day <= WashSaleDays}}
    /\ runs' = 1
    /\ UNCHANGED callVars

DroppedNext ==
    \/ DroppedStart
    \/ DroppedQuotes
    \/ DroppedRebalance
    \/ ExecuteTrades
    \/ DroppedExecuteRow
    \/ DroppedConfirmRow
    \/ OrderLogged
    \/ ExecuteDone
    \/ DroppedExit

\* The steps of a run other than the call of rebalance.
DroppedSteps ==
    \/ DroppedStart
    \/ DroppedQuotes
    \/ ExecuteTrades
    \/ DroppedExecuteRow
    \/ DroppedConfirmRow
    \/ OrderLogged
    \/ ExecuteDone
    \/ DroppedExit

\* The program is sequential and the command is run again and again: a step
\* that can be taken is taken.  The call of rebalance is possible exactly in
\* the states with pc = "quoted" and always leaves them, so its weak fairness
\* is the condition that the run does not stay there.
DroppedSpec ==
    Init /\ [][DroppedNext]_vars /\ WF_vars(DroppedSteps) /\ []<>(pc # "quoted")

(***************************************************************************)
(* Calls of get_tickers over the days                                      *)
(***************************************************************************)

GetTickers ==
    /\ pc = "idle"
    /\ \A f \in Filters : Len(screener_db[f]) <= MaxRows
    /\ \E first, second \in [Filters -> ScreenerResults] :
          LET out == get_tickers(screener_db, first, second, today)
          IN  /\ screener_db' = out.db
              /\ strategies' = out.strategies
    /\ UNCHANGED <<today, washsales, runs, sales, frameVars, planVars, configVars, pc,
                   row, order_log, ord, pos, md>>

NewDay ==
    /\ pc = "idle"
    /\ today < MaxScreenerDay
    /\ today' = today + 1
    /\ UNCHANGED <<washsales, runs, sales, frameVars, planVars, configVars, pc, row,
                   order_log, ord, pos, screener_db, strategies, md>>

TickersNext == GetTickers \/ NewDay

TickersSpec == Init /\ [][TickersNext]_vars

(***************************************************************************)
(* Properties                                                              *)
(***************************************************************************)

\* rebalance() has just returned to main and its frame is still there.
RebalanceReturned == pc = "planned" \/ (pc = "exited" /\ result \in {"invalid", "raised"})

\* The run is over (execute_trades returned or raised) after a plan was made.
RunOver == pc \in {"done", "exited"} /\ result = "ok"

Terminal(r) == r.order_id # Absent /\ r.error = Absent
Prompt(r) == r.id # Absent /\ r.order_id = Absent /\ r.error = Absent

\* C1: whatever the broker answers, one order execution ends in Confirmed
\* or Failed, and sends at most 3 confirmation replies on the way.
C1_ConfirmationBound ==
    /\ [](ord.replies <= 3)
    /\ [](ord.pc = "returned" => OrderStatus(ord) \in {"Confirmed", "Failed"})
    /\ <>(ord.pc = "returned")
    /\ (ord.pc = "confirming" ~> ord.pc = "returned")

\* C1 witness: an execution that has ended after three confirmation replies.
C1_Witness == ord.pc = "returned" /\ ord.replies = 3

\* C2 (as claimed): when the response to the third confirmation reply
\* carries the terminal order id, the execution ends Confirmed and reports
\* that order id.
C2_ThirdReplyConfirmed ==
    (/\ ord.pc = "returned"
     /\ Len(ord.received) = 4
     /\ \A i \in 1..3 : Prompt(ord.received[i])
     /\ Terminal(ord.received[4]))
    => (/\ OrderStatus(ord) = "Confirmed"
        /\ ord.message.order_id = ord.received[4].order_id)

\* C3 (as claimed): a response with an error field ends the execution as
\* Failed, no confirmation reply follows it, and the message returned
\* contains the broker's error text.
C3_ErrorFails ==
    \A i \in DOMAIN ord.received :
        ord.received[i].error # Absent
        => /\ i = Len(ord.received)
           /\ ord.pc = "returned"
           /\ OrderStatus(ord) = "Failed"
           /\ ord.message.error_text = ord.received[i].error

\* The active wash-sale set of the run in progress: the loaded records
\* still unexpired, and the loss sales among the selected rows.
ActiveWashSales ==
    {washsale_loaded[i].Ticker :
        i \in {j \in DOMAIN washsale_loaded : Unexpired(washsale_loaded[j], current_date)}}
    \cup {rebalance_df[i].Ticker :
        i \in {j \in DOMAIN rebalance_df :
                  selected(rebalance_df[j], tolerance) /\ loss_sale(rebalance_df[j])}}

\* C4: the trade list rebalance returns holds no ticker of the active
\* wash-sale set, be its row a buy or a sell.
C4_WashSaleExclusion ==
    pc = "planned"
    => \A i \in DOMAIN trade_df : trade_df[i].Ticker \notin ActiveWashSales

\* C4 witness: a buy row of a ticker whose earlier record is still
\* unexpired was selected, and the returned list has other rows.
C4_Witness ==
    /\ pc = "planned"
    /\ trade_df # <<>>
    /\ \E i \in DOMAIN rebalance_df :
          /\ selected(rebalance_df[i], tolerance)
          /\ rebalance_df[i].Trade_Quantity > 0
          /\ rebalance_df[i].Ticker \in SeqTickers(purge(washsale_loaded, current_date))

\* C5 (as claimed): at any time of day, a record sold 31 days before today
\* is still in the table after the run, and a record sold 32 days before
\* today is no longer there with that date.
C5_ExpirationBoundary ==
    pc = "planned"
    => \A i \in DOMAIN washsale_loaded :
          /\ washsale_loaded[i].Sold = current_date.day - 31
             => washsale_loaded[i].Ticker \in SeqTickers(washsale_df)
          /\ washsale_loaded[i].Sold = current_date.day - 32
             => \A j \in DOMAIN washsale_df : washsale_df[j] # washsale_loaded[i]

Quoted(ticker) == \E q \in market_data_df.rows : q.Ticker = ticker

\* C6 (as claimed): every ticker held and not quoted is in the returned
\* trade list, with trade quantity -position.
C6_AlwaysLiquidated ==
    pc = "planned"
    => \A p \in positions_df :
          (p.Ticker \in Universe /\ ~Quoted(p.Ticker))
          => \E i \in DOMAIN trade_df :
                /\ trade_df[i].Ticker = p.Ticker
                /\ trade_df[i].Trade_Quantity = -p.Position.value

Tolerances == {Fraction(0, 1), Fraction(1, 10), Fraction(1, 2), Fraction(1, 1),
               Fraction(5, 1)}

\* C7 (as claimed): a held ticker that is not quoted has a plan row with
\* target shares 0 and trade quantity -position, and the row passes the
\* filter at every tolerance.
C7_LiquidationOverride ==
    pc = "planned"
    => \A p \in positions_df :
          (p.Position.value # 0 /\ ~Quoted(p.Ticker))
          => \E i \in DOMAIN rebalance_df :
                /\ rebalance_df[i].Ticker = p.Ticker
                /\ rebalance_df[i].Target_Shares = 0
                /\ rebalance_df[i].Trade_Quantity = -p.Position.value
                /\ \A tol \in Tolerances : selected(rebalance_df[i], tol)

C9_LaterRowsAttempted ==
    RunOver
    => \A j \in DOMAIN trade_df :
          UsableConid(trade_df[j].conid)
          => \E k \in DOMAIN order_log : order_log[k].row = j

\* C10 (as claimed): when execute_trades is over, the order POSTs are one
\* per row of the trade list, in the order of the rows, each with its row's
\* contract id and trade quantity.
C10_OneOrderPerRowInOrder ==
    RunOver
    => /\ Len(order_log) = Len(trade_df)
       /\ \A j \in DOMAIN order_log :
             /\ order_log[j].row = j
             /\ order_log[j].payload =
                   OrderPayload(trade_df[j].conid, trade_df[j].Trade_Quantity)

SeqRows(df) == {df[i] : i \in DOMAIN df}

\* |Target Market Value - mktValue| > tolerance * |Target Market Value|, for
\* a row whose target value is not 0.
OutsideTolerance(r, tol) ==
    /\ r.Target_Market_Value.num # 0
    /\ Abs(r.Target_Market_Value.num - r.mktValue * r.Target_Market_Value.den) * tol.den
          > tol.num * Abs(r.Target_Market_Value.num)

\* The row's value differs from its target by exactly the tolerance.
AtTolerance(r, tol) ==
    /\ r.Target_Market_Value.num # 0
    /\ Abs(r.Target_Market_Value.num - r.mktValue * r.Target_Market_Value.den) * tol.den
          = tol.num * Abs(r.Target_Market_Value.num)

\* C11: before the wash-sale removal, a plan row is in the trade list if and
\* only if its difference exceeds the tolerance strictly or its target
\* shares are 0; every row with target value 0 is in it.
C11_ToleranceFilter ==
    pc = "planned"
    => /\ SeqRows(filtered_df) \subseteq SeqRows(rebalance_df)
       /\ \A r \in SeqRows(rebalance_df) :
             /\ r \in SeqRows(filtered_df)
                   <=> (OutsideTolerance(r, tolerance) \/ r.Target_Shares = 0)
             /\ r.Target_Market_Value.num = 0 => r \in SeqRows(filtered_df)

\* C11 witness: a plan with a row exactly at the tolerance (left out), a row
\* beyond it and a row with target value 0 (both selected).
C11_Witness ==
    /\ pc = "planned"
    /\ \E r \in SeqRows(rebalance_df) :
          AtTolerance(r, tolerance) /\ r.Target_Shares # 0 /\ r \notin SeqRows(filtered_df)
    /\ \E r \in SeqRows(filtered_df) :
          OutsideTolerance(r, tolerance) /\ r.Target_Shares # 0
    /\ \E r \in SeqRows(filtered_df) : r.Target_Market_Value.num = 0

\* The plan rows of the quoted tickers.
QuotedRows ==
    {r \in SeqRows(rebalance_df) : \E q \in market_data_df.rows : Key(q) = Key(r)}

RECURSIVE SumCost(_)
SumCost(rows) ==
    IF rows = {} THEN 0
    ELSE LET r == CHOOSE x \in rows : TRUE
         IN  r.Target_Shares * r.Last_Price + SumCost(rows \ {r})

LossSaleTickers ==
    {r.Ticker : r \in {x \in SeqRows(filtered_df) : x.PnL < 0 /\ x.Trade_Quantity < 0}}

\* C13: after a run every ticker whose trade-list row has PnL < 0 and trade
\* quantity < 0 has a record, dated the day of the run, in the persisted
\* table; every record of another ticker is one that was loaded, with its
\* date untouched; and a dropped ticker held with 100 shares at PnL -500
\* gets trade quantity -100 and such a record.
C13_WashSaleRecords ==
    pc = "planned"
    => /\ washsales = washsale_df
       /\ \A t \in LossSaleTickers :
             /\ t \in SeqTickers(washsales)
             /\ \A rec \in SeqRows(washsales) :
                   rec.Ticker = t => rec.Sold = current_date.day
       /\ \A rec \in SeqRows(washsales) :
             rec.Ticker \notin LossSaleTickers => rec \in SeqRows(washsale_loaded)
       /\ \A p \in positions_df :
             (p.Position.value = 100 /\ p.PnL.value = -500 /\ ~Quoted(p.Ticker))
             => /\ \E r \in SeqRows(rebalance_df) :
                      r.Ticker = p.Ticker /\ r.Trade_Quantity = -100
                /\ WashSale(p.Ticker, current_date.day) \in SeqRows(washsales)

\* C13 witness: a run that refreshed the older record of one loss sale,
\* inserted the record of another, and had a dropped ticker held with 100
\* shares at PnL -500.
C13_Witness ==
    /\ pc = "planned"
    /\ \E t \in LossSaleTickers :
          \E rec \in SeqRows(washsale_loaded) :
             rec.Ticker = t /\ rec.Sold < current_date.day
    /\ \E t \in LossSaleTickers : t \notin SeqTickers(washsale_loaded)
    /\ \E p \in positions_df :
          p.Position.value = 100 /\ p.PnL.value = -500 /\ ~Quoted(p.Ticker)

\* sold_date + 31 days < now
Expired(rec, now) ==
    \/ rec.Sold + 31 < now.day
    \/ (rec.Sold + 31 = now.day /\ now.tod > 0)

\* C14: in a completed run the purge comes before the inserts and before
\* the removal: no persisted record is expired, the records inserted in the
\* run are persisted, and a filtered trade row is removed only for a record
\* that was not expired or for a loss sale of this run.
C14_PurgeFirst ==
    pc = "planned"
    => /\ \A rec \in SeqRows(washsales) : ~Expired(rec, current_date)
       /\ \A t \in LossSaleTickers : t \in SeqTickers(washsales)
       /\ \A r \in SeqRows(filtered_df) :
             r \notin SeqRows(trade_df)
             => \/ r.Ticker \in LossSaleTickers
                \/ \E rec \in SeqRows(washsale_loaded) :
                      rec.Ticker = r.Ticker /\ ~Expired(rec, current_date)

\* C14 witness: the ticker of a loaded record that has expired is traded.
C14_Witness ==
    /\ pc = "planned"
    /\ \E rec \in SeqRows(washsale_loaded) :
          /\ Expired(rec, current_date)
          /\ \E r \in SeqRows(trade_df) : r.Ticker = rec.Ticker

\* The text has no reading as a number once everything but digits and '.'
\* is removed.
NotNumeric(text) == ~text.digits \/ text.points > 1

\* The summary lacks a required row or has a non-numeric required amount.
InvalidSummary(summary) ==
    \/ ~summary.has_totalcashvalue
    \/ ~summary.has_netliquidation
    \/ NotNumeric(summary.totalcashvalue)
    \/ NotNumeric(summary.netliquidation)

\* C15: a call of rebalance on a summary that lacks totalcashvalue or
\* netliquidation, or has a non-numeric amount for one of them, ends with the
\* validation failure and no trade list, and the run ends without an order.
C15_InvalidSummaryRejected ==
    /\ (RebalanceReturned /\ InvalidSummary(summary_df)) => result = "invalid"
    /\ result = "invalid"
          => /\ pc = "exited"
             /\ trade_df = <<>>
             /\ order_log = <<>>
             /\ ord = IdleOrder

\* C15 witness: a run ended on a summary with both rows whose net
\* liquidation is not numeric, quotes and a table of records being there.
C15_Witness ==
    /\ pc = "exited"
    /\ result = "invalid"
    /\ summary_df.has_totalcashvalue /\ summary_df.has_netliquidation
    /\ NotNumeric(summary_df.netliquidation)
    /\ market_data_df.rows # {}
    /\ washsales # <<>>

\* C16: a call of positions() sends at most 3 requests; the first response
\* with status 200 ends it, and it returns the snapshot of that response's
\* records; a failed status or a request error before the third request is
\* followed by another request; after 3 failures it returns None and has
\* not raised.
C16_PositionsRetry ==
    LET n == Len(pos.responses)
        ended == pos.pc \in {"returned", "raised"}
    IN  /\ n <= 3
        /\ \A i \in 1..n :
              /\ pos.responses[i].kind = "ok"
                    => /\ i = n
                       /\ pos.pc = "returned"
                       /\ pos.result = Snapshot(positions(pos.responses[i].records))
                       /\ \A j \in 1..(i - 1) : pos.responses[j].kind \in FailedKinds
              /\ (pos.responses[i].kind \in FailedKinds /\ i < 3 /\ ended) => n > i
        /\ (n = 3 /\ \A i \in 1..3 : pos.responses[i].kind \in FailedKinds)
              => (pos.pc = "returned" /\ pos.result = Unavailable)

\* C16 witness: a call that has returned None after three failed requests.
C16_Witness ==
    /\ pos.pc = "returned"
    /\ pos.result = Unavailable
    /\ Len(pos.responses) = 3
    /\ \A i \in 1..3 : pos.responses[i].kind \in FailedKinds

\* C17 (as claimed): when the alias of the topic, the account or the
\* strategy is not resolved, the run has sent no request to the gateway.
C17_ConfigFailureBeforeGateway ==
    (\/ config.alias_id = "missing"
     \/ config.account_id = "None"
     \/ config.strategy \in {"missing", "unknown"})
    => (gateway_log = <<>> /\ order_log = <<>>)

\* Universe {AAPL, XOM}, net liquidation 100,000, prices 50 and 25,
\* tolerance 0.10, nothing held and an empty table.
Scenario ==
    /\ clean_numeric(summary_df.netliquidation) = Amount(TRUE, 100000)
    /\ market_data_df.rows = {Quote("AAPL", Conid("AAPL"), 50),
                              Quote("XOM", Conid("XOM"), 25)}
    /\ tolerance = Fraction(1, 10)
    /\ positions_df = {}
    /\ washsale_loaded = <<>>

\* The row of the ticker has this target value, target shares and trade
\* quantity.
PlansFor(r, ticker, value, shares, quantity) ==
    /\ r.Ticker = ticker
    /\ r.Target_Market_Value.num = value * r.Target_Market_Value.den
    /\ r.Target_Shares = shares
    /\ r.Trade_Quantity = quantity

\* C18: in that scenario rebalance gives each ticker the target value
\* 40,000, AAPL 800 and XOM 1600 target shares and the same trade
\* quantities, and returns both rows in the trade list.
C18_TwoTickerScenario ==
    (pc = "planned" /\ Scenario)
    => /\ Len(rebalance_df) = 2
       /\ Len(trade_df) = 2
       /\ \E r \in SeqRows(trade_df) : PlansFor(r, "AAPL", 40000, 800, 800)
       /\ \E r \in SeqRows(trade_df) : PlansFor(r, "XOM", 40000, 1600, 1600)
       /\ SeqRows(trade_df) = SeqRows(rebalance_df)

\* C18 witness: rebalance has returned in that scenario.
C18_Witness == pc = "planned" /\ Scenario

RECURSIVE SumCounts(_, _)
SumCounts(screeners_dict, filters) ==
    IF filters = {} THEN 0
    ELSE LET f == CHOOSE x \in filters : TRUE
         IN  screeners_dict[f].Number_of_tickers + SumCounts(screeners_dict, filters \ {f})

\* C19 (as claimed): for every strategy group_and_combine produced, the
\* number of combined tickers is at most the sum of the ticker counts of its
\* filters, and equal to it exactly when no two of its filters share a
\* ticker.
C19_Deduplication ==
    LET screeners_dict == read_from_db(screener_db)
    IN  \A s \in DOMAIN strategies :
           LET filters == {f \in SeqSet(strategies_group[s]) : f \in DOMAIN screeners_dict}
               total == SumCounts(screeners_dict, filters)
               shared == \E f, g \in filters :
                            /\ f # g
                            /\ SeqSet(screeners_dict[f].Tickers)
                                  \cap SeqSet(screeners_dict[g].Tickers) # {}
           IN  /\ strategies[s].Number_of_tickers <= total
               /\ strategies[s].Number_of_tickers = total <=> ~shared

\* C20 (as claimed): the persisted wash-sale table never holds two records
\* of the same ticker.
C20_OneRecordPerTicker ==
    \A i, j \in DOMAIN washsales :
        washsales[i].Ticker = washsales[j].Ticker => i = j

\* C21: the persisted table changes only in the step in which rebalance
\* returns a trade list, and then to the whole updated set rebalance returns;
\* a run that ends in a validation failure or an exception leaves the table
\* as it was before the run.
C21_WholesaleReplace ==
    [][/\ washsales' # washsales
             => /\ pc = "quoted" /\ pc' = "planned" /\ result' = "ok"
                /\ washsales' = washsale_df'
       /\ (pc = "quoted" /\ pc' = "exited") => washsales' = washsales]_vars

\* C21 witness: a run has failed after the table was fetched with a record
\* that the purge would have dropped.
C21_Witness ==
    /\ pc = "exited"
    /\ result \in {"invalid", "raised"}
    /\ washsale_loaded # <<>>
    /\ washsales = washsale_loaded
    /\ \E rec \in SeqRows(washsales) : Expired(rec, current_date)

SnapshotRequests(m) == {i \in DOMAIN m.requests : m.requests[i] = "marketdata/snapshot"}

\* The quote rows of the items of a body that have every required key.
RowsOf(body) ==
    {Quote(item.Ticker, item.conid, item.Last_Price) : item \in {x \in body : x.complete}}

\* C22: in a call of market_data every snapshot request comes after a
\* request to the accounts endpoint that was answered with success; a call
\* that returns quote rows has sent exactly two snapshot requests, and its
\* rows are those of the second snapshot response.
C22_WarmUpAndTwoSnapshots ==
    /\ \A i \in SnapshotRequests(md) :
          \E j \in 1..(i - 1) :
             md.requests[j] = "iserver/accounts" /\ md.replies[j].kind = "ok"
    /\ (md.pc = "returned" /\ md.result.columns)
          => /\ Cardinality(SnapshotRequests(md)) = 2
             /\ md.requests[Len(md.requests)] = "marketdata/snapshot"
             /\ md.result.rows = RowsOf(md.replies[Len(md.replies)].body)

\* C22 witness: a call has returned quote rows though the first snapshot
\* response held an item without its price and other items than the second.
C22_Witness ==
    /\ md.pc = "returned"
    /\ md.result.columns
    /\ md.replies[3].body # md.replies[4].body
    /\ \E item \in md.replies[3].body : ~item.complete

\* C23 (as claimed): every row of the snapshot positions() returns is one
\* record of the gateway's response with a quantity other than 0, and no
\* other row is in it.
C23_OnlyHeldInstruments ==
    pos.result.kind = "snapshot"
    => \A r \in pos.result.rows :
          /\ r.Position.value # 0
          /\ \E rec \in pos.responses[Len(pos.responses)].records :
                rec.Ticker = r.Ticker /\ rec.conid = r.conid /\ rec.Position # 0

\* C24 (as claimed): an order execution that ends Failed has received no
\* response carrying a terminal order id, the responses to its confirmation
\* replies included.
C24_FailedOnlyWithoutOrderId ==
    (ord.pc = "returned" /\ OrderStatus(ord) = "Failed")
    => \A i \in DOMAIN ord.received :
          ~Terminal(ord.received[i])

\* C25 (as claimed): no row of the trade list rebalance returns has trade
\* quantity 0, and no order POST has quantity 0.
C25_NoZeroOrder ==
    /\ pc = "planned" => \A i \in DOMAIN trade_df : trade_df[i].Trade_Quantity # 0
    /\ \A k \in DOMAIN order_log : order_log[k].payload.quantity # 0

\* A sell order for the ticker is among the order POSTs of the run.
SellSubmitted(ticker) ==
    \E k \in DOMAIN order_log :
        order_log[k].payload.side = "SELL" /\ order_log[k].payload.conid = Conid(ticker)

\* C26 (as claimed): when a run is over, every record of the table dated the
\* day of the run belongs to a ticker for which the run submitted a sell
\* order.
C26_RecordsOnlyForSubmittedSells ==
    RunOver
    => \A rec \in SeqRows(washsales) : rec.Sold = today => SellSubmitted(rec.Ticker)

\* C27 (as claimed): in repeated runs that hold the dropped ticker at a loss,
\* with a gateway that confirms every order, a sell order for the ticker is
\* eventually submitted.
C27_DroppedEventuallySold == <>SellSubmitted(Dropped)

BuyRow(r) == r.Trade_Quantity > 0

\* C28 (as claimed): when rebalance returns a plan, every ticker sold at a
\* loss within the last 31 days has a record in the persisted table that has
\* not expired, and the plan has no buy row for it.
C28_NoRebuyAfterLossSale ==
    pc = "planned"
    => \A s \in sales :
          s.day + 31 >= today
          => /\ \E rec \in SeqRows(washsales) :
                   rec.Ticker = s.Ticker /\ ~Expired(rec, current_date)
             /\ \A r \in SeqRows(trade_df) : r.Ticker = s.Ticker => ~BuyRow(r)

\* What a trade row costs: trade quantity x last price, a sale counting
\* negative; a row without a quote (a position that is sold off) counts with
\* its market value.
RowCost(r) ==
    IF \E q \in market_data_df.rows : Key(q) = Key(r)
    THEN r.Trade_Quantity * r.Last_Price
    ELSE -r.mktValue

RECURSIVE NetCost(_)
NetCost(rows) ==
    IF rows = {} THEN 0
    ELSE LET r == CHOOSE x \in rows : TRUE IN RowCost(r) + NetCost(rows \ {r})

\* C29 (as claimed): the net purchase cost of the trade list rebalance
\* returns is at most the account's total cash value.
C29_WithinCash ==
    pc = "planned"
    => NetCost(SeqRows(trade_df)) <= clean_numeric(summary_df.totalcashvalue).value

\* C30 (as claimed): no ticker has two rows in the trade list rebalance
\* returns, and no run sends both a buy and a sell order for one ticker, also
\* when the quote's contract id is not the one of the position record.
C30_OneRowPerTicker ==
    /\ pc = "planned"
          => \A i, j \in DOMAIN trade_df :
                trade_df[i].Ticker = trade_df[j].Ticker => i = j
    /\ \A j, k \in DOMAIN order_log :
          trade_df[order_log[j].row].Ticker = trade_df[order_log[k].row].Ticker
          => order_log[j].payload.side = order_log[k].payload.side

====
